---- MODULE Spec2Model ----
(***************************************************************************)
(* A model of the image pipeline in Code/Lambda1-image-processor.py:       *)
(* the S3-triggered lambda_handler, is_image_file, process_image,          *)
(* resize_image_content, add_watermark, generate_destination_key and       *)
(* get_content_type; and of the metadata service in                        *)
(* Code/Lambda2-Store-imageMetadata.py: its lambda_handler and the four    *)
(* handle_*_metadata functions over the DynamoDB table.                    *)
(***************************************************************************)
EXTENDS Integers, Sequences, FiniteSets, TLC

VARIABLES
    img_size,       \* resize_image_content: img.size of the raster passed in
    box,            \* resize_image_content: <<width, height>>, the target box
    new_size,       \* resize_image_content: <<new_width, new_height>>, <<>> before the call
    source_key,     \* generate_destination_key: its argument, a string as a sequence of characters
    derived,        \* the keys derived from source_key so far, by repeated application
    wm_size,        \* add_watermark: watermarked.size, <<img_width, img_height>>
    wm_text,        \* add_watermark: <<text_width, text_height>> of the measured bounding box
    wm_position,    \* add_watermark: the position argument, an anchor name
    wm_xy,          \* add_watermark: <<x, y>> handed to draw.text, <<>> before the call
    p_content,      \* process_image: image_content, as what Image.open decodes it to
    p_pc,           \* process_image: the statement reached
    p_img,          \* process_image: img after the colour-mode block, [mode, px]
    p_size,         \* process_image: the size of the raster in hand
    p_xy,           \* process_image: where add_watermark drew the text
    p_saved,        \* process_image: the arguments of watermarked_img.save
    event,          \* lambda_handler: the event, [has_records, Records]
    h_pc,           \* lambda_handler: "loop" inside the for loop, "returned" after
    h_i,            \* lambda_handler: the position in event['Records'] of the next record
    log,            \* lambda_handler: what it printed, one entry per record it took up
    gets,           \* the s3.get_object calls issued, in order
    puts,           \* the s3.put_object calls issued, in order
    response,       \* lambda_handler: the statusCode returned, 0 before the return
    table,          \* metadata service: the items of the DynamoDB table, by ImageID
    utcnow,         \* metadata service: the clock datetime.utcnow() reads
    api_event,      \* metadata service: the event of the last request, <<>> before the first
    api_response    \* metadata service: what lambda_handler returned for it, [statusCode, message]

resizeVars == <<img_size, box, new_size>>

keyVars == <<source_key, derived>>

wmVars == <<wm_size, wm_text, wm_position, wm_xy>>

procVars == <<p_content, p_pc, p_img, p_size, p_xy, p_saved>>

handlerVars == <<event, h_pc, h_i, log, gets, puts, response>>

metaVars == <<table, utcnow, api_event, api_response>>

vars == <<resizeVars, keyVars, wmVars, procVars, handlerVars, metaVars>>

\* Bytes that Image.open cannot identify.
Corrupt ==
    [format |-> "", mode |-> "", size |-> <<>>, px |-> <<>>,
     palette |-> <<>>, transparency |-> <<>>]

(***************************************************************************)
(* Each function is exercised by a specification of its own; the variables *)
(* of the others then rest at these values.                                *)
(***************************************************************************)
ResizeIdle == img_size = <<>> /\ box = <<>> /\ new_size = <<>>

KeyIdle == source_key = <<>> /\ derived = <<>>

WmIdle == wm_size = <<>> /\ wm_text = <<>> /\ wm_position = "" /\ wm_xy = <<>>

ProcIdle ==
    /\ p_content = Corrupt /\ p_pc = "" /\ p_img = <<>>
    /\ p_size = <<>> /\ p_xy = <<>> /\ p_saved = <<>>

HandlerIdle ==
    /\ event = [has_records |-> FALSE, Records |-> <<>>]
    /\ h_pc = "" /\ h_i = 0 /\ log = <<>>
    /\ gets = <<>> /\ puts = <<>> /\ response = 0

MetaIdle ==
    /\ table = {} /\ utcnow = 0
    /\ api_event = <<>> /\ api_response = <<>>

(***************************************************************************)
(* Python floats are IEEE-754 binary64.  resize_image_content computes its *)
(* dimensions with them, so the model carries an exact binary64 arithmetic *)
(* for the positive values that occur: a float is [m, e] with value        *)
(* m * 2^e, where the 53-bit significand m is held in three limbs          *)
(* <<top, mid, low>> of 13, 20 and 20 bits (TLC integers are 32 bits       *)
(* wide).  Integer operands are below 2^11.  Every operation rounds to     *)
(* nearest, ties to even, as the hardware does.                            *)
(***************************************************************************)
Limb == 2^20

TopOne == 2^12

RECURSIVE BitLen(_)
BitLen(n) == IF n = 0 THEN 0 ELSE 1 + BitLen(n \div 2)

BigGeq(A, B) ==
    IF A[1] # B[1] THEN A[1] > B[1]
    ELSE IF A[2] # B[2] THEN A[2] > B[2]
    ELSE A[3] >= B[3]

BigSub(A, B) ==
    LET l  == A[3] - B[3]
        bl == IF l < 0 THEN 1 ELSE 0
        m  == A[2] - B[2] - bl
        bm == IF m < 0 THEN 1 ELSE 0
    IN  <<A[1] - B[1] - bm, m + bm * Limb, l + bl * Limb>>

BigDbl(A) ==
    LET l == 2 * A[3]
        m == 2 * A[2] + (l \div Limb)
    IN  <<2 * A[1] + (m \div Limb), m % Limb, l % Limb>>

\* The significand m, one unit in the last place up, renormalised when it
\* reaches 2^53.
RoundUp(m, e) ==
    LET l == m[3] + 1
        d == m[2] + (l \div Limb)
        t == m[1] + (d \div Limb)
    IN  IF t = 2 * TopOne
        THEN [m |-> <<TopOne, 0, 0>>, e |-> e + 1]
        ELSE [m |-> <<t, d % Limb, l % Limb>>, e |-> e]

\* Round to nearest, ties to even: `twice` is twice the discarded remainder
\* and `unit` what it is measured against (BigGeq-comparable triples).
RoundNearest(m, e, twice, unit) ==
    IF twice = unit
    THEN IF m[3] % 2 = 1 THEN RoundUp(m, e) ELSE [m |-> m, e |-> e]
    ELSE IF BigGeq(twice, unit) THEN RoundUp(m, e) ELSE [m |-> m, e |-> e]

\* a / b for Python ints a, b > 0: the correctly rounded quotient.
IntTrueDiv(a, b) ==
    LET d  == BitLen(a) - BitLen(b)
        a1 == a * 2^(IF d < 0 THEN -d ELSE 0)
        b1 == b * 2^(IF d > 0 THEN d ELSE 0)
        an == IF a1 >= b1 THEN a1 ELSE 2 * a1
        ex == IF a1 >= b1 THEN d ELSE d - 1
        \* an / b1 is in [1, 2): 1 + 12 bits, then 20, then 20
        t2 == an * TopOne
        r2 == t2 % b1
        t1 == r2 * Limb
        r1 == t1 % b1
        t0 == r1 * Limb
        r0 == t0 % b1
    IN  RoundNearest(<<t2 \div b1, t1 \div b1, t0 \div b1>>, ex - 52,
                     <<0, 0, 2 * r0>>, <<0, 0, b1>>)

\* n * x for a Python int n > 0 and a float x: n converts exactly, the
\* product is rounded once.
FloatMul(n, x) ==
    LET c0 == n * x.m[3]
        c1 == n * x.m[2] + (c0 \div Limb)
        p2 == n * x.m[1] + (c1 \div Limb)
        p1 == c1 % Limb
        p0 == c0 % Limb
        k  == BitLen(p2) - 13
        K  == 2^k
        up == Limb \div K
    IN  RoundNearest(<<p2 \div K,
                       (p1 \div K) + (p2 % K) * up,
                       (p0 \div K) + (p1 % K) * up>>,
                     x.e + k,
                     <<0, 0, 2 * (p0 % K)>>, <<0, 0, K>>)

\* n quotient bits of R / M by binary long division, R < M on entry.
RECURSIVE DivBits(_, _, _)
DivBits(R, M, n) ==
    IF n = 0 THEN [q |-> 0, r |-> R]
    ELSE LET R2   == BigDbl(R)
             bit  == IF BigGeq(R2, M) THEN 1 ELSE 0
             rest == DivBits(IF bit = 1 THEN BigSub(R2, M) ELSE R2, M, n - 1)
         IN  [q |-> bit * 2^(n - 1) + rest.q, r |-> rest.r]

\* n / x for a Python int n > 0 and a float x: the correctly rounded
\* quotient of the two binary64 values.
FloatDiv(n, x) ==
    LET s   == 13 - BitLen(n)
        N0  == <<n * 2^s, 0, 0>>                   \* n * 2^(40+s), 53 bits
        ge  == BigGeq(N0, x.m)
        N   == IF ge THEN N0 ELSE BigDbl(N0)      \* x.m <= N < 2 * x.m
        sh  == IF ge THEN 40 + s ELSE 41 + s
        top == DivBits(BigSub(N, x.m), x.m, 12)
        mid == DivBits(top.r, x.m, 20)
        low == DivBits(mid.r, x.m, 20)
    IN  RoundNearest(<<TopOne + top.q, mid.q, low.q>>, (0 - 52) - sh - x.e,
                     BigDbl(low.r), x.m)

\* x > y for positive floats.
FloatGt(x, y) ==
    IF x.e # y.e THEN x.e > y.e
    ELSE x.m # y.m /\ BigGeq(x.m, y.m)

\* int(x): truncation toward zero, for 0 < x < 2^30.
FloatToInt(x) ==
    LET n == 0 - x.e
    IN  IF n >= 53 THEN 0
        ELSE IF n >= 40 THEN x.m[1] \div 2^(n - 40)
        ELSE x.m[1] * 2^(40 - n) + (x.m[2] \div 2^(n - 20))

(***************************************************************************)
(* resize_image_content: the dimensions handed to img.resize.              *)
(***************************************************************************)
\* resize_image_content fitting to the other axis: its comparison inverted.
resize_image_content_inverted(size, width, height) ==
    LET aspect_ratio == IntTrueDiv(size[1], size[2])
    IN  IF FloatGt(aspect_ratio, IntTrueDiv(width, height))
        THEN <<FloatToInt(FloatMul(height, aspect_ratio)), height>>
        ELSE <<width, FloatToInt(FloatDiv(width, aspect_ratio))>>

\* resize_image_content without the aspect ratio: the raster stretched to
\* the box.
resize_image_content_stretched(size, width, height) == <<width, height>>

resize_image_content(size, width, height) ==
    LET original_width  == size[1]
        original_height == size[2]
        aspect_ratio    == IntTrueDiv(original_width, original_height)
    IN  IF FloatGt(aspect_ratio, IntTrueDiv(width, height))
        THEN <<width, FloatToInt(FloatDiv(width, aspect_ratio))>>
        ELSE <<FloatToInt(FloatMul(height, aspect_ratio)), height>>

\* Environment defaults read by lambda_handler.
RESIZE_WIDTH == 800

RESIZE_HEIGHT == 600

MaxDim == 9

Dims == 1..MaxDim

\* Raster sizes: every small one, and the sizes the specification names.
Sizes == (Dims \X Dims) \cup {<<2000, 1000>>, <<1000, 1>>, <<1100, 1500>>}

Boxes == (Dims \X Dims) \cup {<<RESIZE_WIDTH, RESIZE_HEIGHT>>}

InitResize ==
    /\ img_size \in Sizes
    /\ box \in Boxes
    /\ new_size = <<>>
    /\ KeyIdle
    /\ WmIdle
    /\ ProcIdle
    /\ HandlerIdle
    /\ MetaIdle

\* resized_img = resize_image_content(img, width, height)
Resize ==
    /\ img_size # <<>>
    /\ new_size = <<>>
    /\ new_size' = resize_image_content(img_size, box[1], box[2])
    /\ UNCHANGED <<img_size, box, keyVars, wmVars, procVars, handlerVars, metaVars>>

NextResize == Resize

SpecResize == InitResize /\ [][NextResize]_vars

Resized == new_size # <<>>

\* The dimensions the specification states: exact rational comparison and
\* exact floors.
StatedSize(w, h, W, H) ==
    IF w * H > W * h THEN <<W, (W * h) \div w>> ELSE <<(H * w) \div h, H>>

\* C1: resizing a w x h raster to the box (W, H) yields (W, floor(W*h/w))
\* when w/h > W/H and (floor(H*w/h), H) otherwise, ties included.
C1_StatedDimensions ==
    Resized => new_size = StatedSize(img_size[1], img_size[2], box[1], box[2])

\* C2: the output fits the box, width <= W and height <= H, and at least one
\* of the two dimensions equals its bound.
C2_FitsBox ==
    Resized =>
        /\ new_size[1] <= box[1]
        /\ new_size[2] <= box[2]
        /\ (new_size[1] = box[1] \/ new_size[2] = box[2])

\* C2 witness: a raster wider than the box, resized to the box's width.
C2_Witness ==
    /\ Resized
    /\ img_size = <<7, 2>> /\ box = <<5, 3>>
    /\ new_size = <<5, 1>>

\* C10 as stated: exactly one axis equals its target-box dimension.
C10_ExactlyOneAxis ==
    Resized => ((new_size[1] = box[1]) # (new_size[2] = box[2]))

\* C10 amended: at least one axis equals its target-box dimension, and both
\* do only for a raster of exactly the box's aspect ratio (w*H = W*h).
C10_OneAxisBothOnlyOnTie ==
    Resized =>
        /\ (new_size[1] = box[1] \/ new_size[2] = box[2])
        /\ (new_size = box => img_size[1] * box[2] = box[1] * img_size[2])

\* C10 witness: a raster of the box's aspect ratio comes out at the box's
\* size, both axes on their bounds.
C10_Witness ==
    /\ Resized
    /\ img_size = <<8, 6>> /\ box = <<4, 3>>
    /\ new_size = box

\* C11: for all positive w, h, W, H both computed dimensions are at least 1,
\* so img.resize never receives a zero width or height.
C11_DimensionsAtLeastOne ==
    Resized => (new_size[1] >= 1 /\ new_size[2] >= 1)

(***************************************************************************)
(* Strings are sequences of one-character strings.                         *)
(***************************************************************************)
\* str.rfind(c): the last position of c in s, 0 when there is none.
RFind(s, c) ==
    LET at == {i \in 1..Len(s) : s[i] = c}
    IN  IF at = {} THEN 0 ELSE CHOOSE i \in at : \A j \in at : j <= i

\* str.split('/')
RECURSIVE Split(_)
Split(s) ==
    LET at == {i \in 1..Len(s) : s[i] = "/"}
    IN  IF at = {} THEN <<s>>
        ELSE LET i == CHOOSE k \in at : \A j \in at : k <= j
             IN  <<SubSeq(s, 1, i - 1)>> \o Split(SubSeq(s, i + 1, Len(s)))

\* '/'.join(parts)
RECURSIVE Join(_)
Join(parts) ==
    IF Len(parts) = 0 THEN <<>>
    ELSE IF Len(parts) = 1 THEN parts[1]
    ELSE parts[1] \o <<"/">> \o Join(Tail(parts))

\* os.path.splitext(p): <<root, ext>>; the extension starts at the last dot
\* of the last path component, unless only dots precede it there.
splitext(p) ==
    LET sepIndex == RFind(p, "/")
        dotIndex == RFind(p, ".")
    IN  IF dotIndex > sepIndex
           /\ \E j \in (sepIndex + 1)..(dotIndex - 1) : p[j] # "."
        THEN <<SubSeq(p, 1, dotIndex - 1), SubSeq(p, dotIndex, Len(p))>>
        ELSE <<p, <<>>>>

ProcessedPrefix == <<"p", "r", "o", "c", "e", "s", "s", "e", "d", "-">>

(***************************************************************************)
(* generate_destination_key                                                *)
(***************************************************************************)
generate_destination_key(key) ==
    LET path_parts   == Split(key)
        filename     == path_parts[Len(path_parts)]
        directory    == IF Len(path_parts) > 1
                        THEN Join(SubSeq(path_parts, 1, Len(path_parts) - 1))
                        ELSE <<>>
        name_ext     == splitext(filename)
        new_filename == ProcessedPrefix \o name_ext[1] \o name_ext[2]
    IN  IF directory # <<>>
        THEN directory \o <<"/">> \o new_filename
        ELSE new_filename

MaxKeyLen == 4

KeyAlphabet == {"a", "/", "."}

RECURSIVE SeqsUpTo(_, _)
SeqsUpTo(S, n) ==
    IF n = 0 THEN {<<>>}
    ELSE LET shorter == SeqsUpTo(S, n - 1)
         IN  shorter \cup {Append(q, c) : q \in shorter, c \in S}

SourceKeys == SeqsUpTo(KeyAlphabet, MaxKeyLen)

MaxDerivations == 2

InitKey ==
    /\ source_key \in SourceKeys
    /\ derived = <<>>
    /\ ResizeIdle
    /\ WmIdle
    /\ ProcIdle
    /\ HandlerIdle
    /\ MetaIdle

\* destination_key = generate_destination_key(source_key), and the same
\* again on a key that was derived already.
GenerateDestinationKey ==
    /\ Len(derived) < MaxDerivations
    /\ derived' = Append(derived,
                         generate_destination_key(
                             IF derived = <<>> THEN source_key
                             ELSE derived[Len(derived)]))
    /\ UNCHANGED <<source_key, resizeVars, wmVars, procVars, handlerVars, metaVars>>

NextKey == GenerateDestinationKey

SpecKey == InitKey /\ [][NextKey]_vars

\* The directory path of a key: everything up to and including its last '/'.
DirectoryPath(key) == SubSeq(key, 1, RFind(key, "/"))

\* The final filename component of a key: everything after its last '/'.
FileName(key) == SubSeq(key, RFind(key, "/") + 1, Len(key))

\* C6: the destination key is the source key's directory path, unchanged,
\* followed by 'processed-' and the source key's filename; deriving again
\* from that key stacks a second 'processed-' on the filename.
C6_DirectoryPreserved ==
    /\ Len(derived) >= 1 =>
           derived[1] = DirectoryPath(source_key) \o ProcessedPrefix
                            \o FileName(source_key)
    /\ Len(derived) >= 2 =>
           derived[2] = DirectoryPath(source_key) \o ProcessedPrefix
                            \o ProcessedPrefix \o FileName(source_key)

(***************************************************************************)
(* add_watermark: where the text is drawn.  The bounding box of the text   *)
(* is measured by the font library and is an input here.                   *)
(***************************************************************************)
margin == 20

Anchors == {"top-left", "top-right", "bottom-left", "bottom-right", "center"}

position_map(img_width, img_height, text_width, text_height) ==
    [a \in Anchors |->
        CASE a = "top-left"     -> <<margin, margin>>
          [] a = "top-right"    -> <<img_width - text_width - margin, margin>>
          [] a = "bottom-left"  -> <<margin, img_height - text_height - margin>>
          [] a = "bottom-right" -> <<img_width - text_width - margin,
                                     img_height - text_height - margin>>
          [] a = "center"       -> <<(img_width - text_width) \div 2,
                                     (img_height - text_height) \div 2>>]

\* add_watermark with an unknown anchor falling back to the first entry of
\* the table.
add_watermark_xy_fallback_first(size, text, position) ==
    LET pm == position_map(size[1], size[2], text[1], text[2])
    IN  IF position \in DOMAIN pm THEN pm[position] ELSE pm["top-left"]

\* x, y = position_map.get(position, position_map['bottom-right'])
add_watermark_xy(size, text, position) ==
    LET pm == position_map(size[1], size[2], text[1], text[2])
    IN  IF position \in DOMAIN pm THEN pm[position] ELSE pm["bottom-right"]

MaxWmDim == 4

MaxText == 3

WmSizes == LET d == (1..MaxWmDim) \cup {1000} IN d \X d

WmTexts == ((0..MaxText) \X (0..MaxText)) \cup {<<100, 30>>, <<1200, 30>>}

WmPositions == Anchors \cup {"middle", "Center", "bottom_right"}

InitWatermark ==
    /\ wm_size \in WmSizes
    /\ wm_text \in WmTexts
    /\ wm_position \in WmPositions
    /\ wm_xy = <<>>
    /\ ResizeIdle
    /\ KeyIdle
    /\ ProcIdle
    /\ HandlerIdle
    /\ MetaIdle

\* add_watermark(resized_img, watermark_text, opacity, position, size_ratio)
AddWatermark ==
    /\ wm_size # <<>>
    /\ wm_xy = <<>>
    /\ wm_xy' = add_watermark_xy(wm_size, wm_text, wm_position)
    /\ UNCHANGED <<wm_size, wm_text, wm_position, resizeVars, keyVars, procVars, handlerVars, metaVars>>

NextWatermark == AddWatermark

SpecWatermark == InitWatermark /\ [][NextWatermark]_vars

\* The largest integer not above n / 2.
HalfOf(n, x) == 2 * x <= n /\ n < 2 * x + 2

\* C7: the text is drawn at (20, 20) for top-left, (img_w - tw - 20, 20)
\* for top-right, (20, img_h - th - 20) for bottom-left,
\* (img_w - tw - 20, img_h - th - 20) for bottom-right and for every
\* unrecognized anchor, and at the (whole-pixel) half of the slack for
\* center; for 1000x1000 and 100x30 that is (880, 950), (20, 20), (450, 485).
C7_AnchorPositions ==
    wm_xy # <<>> =>
        LET img_w == wm_size[1]
            img_h == wm_size[2]
            tw    == wm_text[1]
            th    == wm_text[2]
        IN  /\ wm_position = "top-left" => wm_xy = <<20, 20>>
            /\ wm_position = "top-right" => wm_xy = <<img_w - tw - 20, 20>>
            /\ wm_position = "bottom-left" => wm_xy = <<20, img_h - th - 20>>
            /\ wm_position = "bottom-right" =>
                   wm_xy = <<img_w - tw - 20, img_h - th - 20>>
            /\ wm_position = "center" =>
                   /\ HalfOf(img_w - tw, wm_xy[1])
                   /\ HalfOf(img_h - th, wm_xy[2])
            /\ wm_position \notin Anchors =>
                   wm_xy = <<img_w - tw - 20, img_h - th - 20>>
            /\ (wm_size = <<1000, 1000>> /\ wm_text = <<100, 30>>) =>
                   /\ wm_position = "bottom-right" => wm_xy = <<880, 950>>
                   /\ wm_position = "middle" => wm_xy = <<880, 950>>
                   /\ wm_position = "top-left" => wm_xy = <<20, 20>>
                   /\ wm_position = "center" => wm_xy = <<450, 485>>

\* C7 witness: the unrecognized anchor "middle" on a 1000x1000 raster with a
\* 100x30 text box, drawn at the bottom-right position.
C7_Witness ==
    /\ wm_size = <<1000, 1000>>
    /\ wm_text = <<100, 30>>
    /\ wm_position = "middle"
    /\ wm_xy = <<880, 950>>

(***************************************************************************)
(* process_image.  A raster is followed through one of its pixels: the     *)
(* colour-mode block acts on every pixel alike.  A decoded image is        *)
(* [format, mode, size, px, palette, transparency]: px holds the pixel's   *)
(* bands (an index for mode P), palette the colours of a P image and       *)
(* transparency the alpha of each palette entry.                           *)
(***************************************************************************)
QUALITY == 85

WATERMARK_POSITION == "bottom-right"

White == <<255, 255, 255>>

\* Pillow's 8-bit a * b / 255, rounded.
MulDiv255(a, b) ==
    LET tmp == a * b + 128
    IN  ((tmp \div 256) + tmp) \div 256

\* One band of Image.paste under an 8-bit mask: mask parts of the pasted
\* band `in2` over 255 - mask parts of the band `in1` already there.
Blend8(mask, in1, in2) == MulDiv255(in1, 255 - mask) + MulDiv255(in2, mask)

\* img.convert('RGBA') of a P raster: the palette colour of the pixel's
\* index, with the alpha its index has in the transparency table.
ConvertPToRGBA(image) ==
    LET idx == image.px[1]
    IN  [mode |-> "RGBA",
         px   |-> image.palette[idx] \o <<image.transparency[idx]>>]

\* background.paste(img, mask): with the alpha band as mask each band is
\* blended; with no mask the RGB bands of the stored pixel are copied as
\* they are (an LA pixel is stored as L, L, L, A).
Paste(background, img, with_mask) ==
    IF with_mask
    THEN [i \in 1..3 |-> Blend8(img.px[4], background[i], img.px[i])]
    ELSE IF img.mode = "LA" THEN <<img.px[1], img.px[1], img.px[1]>>
    ELSE SubSeq(img.px, 1, 3)

\* if img.mode in ('RGBA', 'LA', 'P'): ... img = background
NormalizeMode(image) ==
    IF image.mode \in {"RGBA", "LA", "P"}
    THEN LET background == White
             img == IF image.mode = "P" THEN ConvertPToRGBA(image)
                    ELSE [mode |-> image.mode, px |-> image.px]
         IN  [mode |-> "RGB",
              px   |-> Paste(background, img, img.mode = "RGBA")]
    ELSE [mode |-> image.mode, px |-> image.px]

RecognizedFormats == {"JPEG", "JPG", "PNG", "GIF", "BMP", "WEBP"}

\* format_map.get(original_format, 'JPEG') with WEBP missing from the table.
output_format_no_webp(original_format) ==
    IF original_format \in RecognizedFormats \ {"WEBP"}
    THEN IF original_format = "JPG" THEN "JPEG" ELSE original_format
    ELSE "JPEG"

\* format_map.get(original_format, 'JPEG')
output_format(original_format) ==
    LET format_map == [f \in RecognizedFormats |->
                          IF f = "JPG" THEN "JPEG" ELSE f]
    IN  IF original_format \in DOMAIN format_map
        THEN format_map[original_format]
        ELSE "JPEG"

\* The keyword arguments of watermarked_img.save: quality is a sequence,
\* empty when the argument is not passed.
save_args(fmt, quality) ==
    IF fmt = "JPEG"
    THEN [format |-> fmt, quality |-> <<quality>>, optimize |-> TRUE]
    ELSE [format |-> fmt, quality |-> <<>>, optimize |-> TRUE]

Levels == {0, 128, 255}

Colours == {<<0, 0, 0>>, <<200, 100, 0>>, <<255, 255, 255>>}

Palette == <<<<0, 0, 0>>, <<200, 100, 0>>>>

\* The pixels of each mode: [px, palette, transparency].
Pixels(mode) ==
    CASE mode = "RGB"  -> {[px |-> c, palette |-> <<>>, transparency |-> <<>>] :
                              c \in Colours}
      [] mode = "RGBA" -> {[px |-> c \o <<a>>, palette |-> <<>>,
                            transparency |-> <<>>] : c \in Colours, a \in Levels}
      [] mode = "LA"   -> {[px |-> <<l, a>>, palette |-> <<>>,
                            transparency |-> <<>>] : l \in Levels, a \in Levels}
      [] mode = "L"    -> {[px |-> <<l>>, palette |-> <<>>,
                            transparency |-> <<>>] : l \in Levels}
      [] mode = "P"    -> {[px |-> <<i>>, palette |-> Palette,
                            transparency |-> t] :
                              i \in 1..2,
                              t \in {<<255, 255>>, <<0, 255>>, <<128, 0>>}}

\* The modes in which each format decodes; "MPO" and "TIFF" stand for the
\* formats outside the table.
FormatModes ==
    [f \in RecognizedFormats \cup {"MPO", "TIFF"} |->
        CASE f \in {"JPEG", "JPG", "MPO"} -> {"RGB", "L"}
          [] f = "PNG"  -> {"RGB", "RGBA", "LA", "L", "P"}
          [] f = "GIF"  -> {"P", "L"}
          [] f = "BMP"  -> {"RGB", "P", "L"}
          [] f = "WEBP" -> {"RGB", "RGBA"}
          [] f = "TIFF" -> {"RGB", "RGBA", "LA", "L", "P"}]

ProcSizes == {<<2000, 1000>>, <<1000, 1>>, <<4, 3>>}

Images ==
    UNION {UNION {{[format |-> f, mode |-> m, size |-> sz, px |-> x.px,
                    palette |-> x.palette, transparency |-> x.transparency] :
                      x \in Pixels(m), sz \in ProcSizes} :
                  m \in FormatModes[f]} :
           f \in DOMAIN FormatModes}

InitProcess ==
    /\ p_content \in Images \cup {Corrupt}
    /\ p_pc = "open"
    /\ p_img = <<>>
    /\ p_size = <<>>
    /\ p_xy = <<>>
    /\ p_saved = <<>>
    /\ ResizeIdle
    /\ KeyIdle
    /\ WmIdle
    /\ HandlerIdle
    /\ MetaIdle

\* with Image.open(io.BytesIO(image_content)) as img: raises on bytes that
\* are no image.
Open ==
    /\ p_pc = "open"
    /\ IF p_content = Corrupt
       THEN p_pc' = "raised" /\ UNCHANGED p_size
       ELSE p_pc' = "mode" /\ p_size' = p_content.size
    /\ UNCHANGED <<p_content, p_img, p_xy, p_saved, resizeVars, keyVars, wmVars, handlerVars, metaVars>>

\* lines 111-117
Normalize ==
    /\ p_pc = "mode"
    /\ p_img' = NormalizeMode(p_content)
    /\ p_pc' = "resize"
    /\ UNCHANGED <<p_content, p_size, p_xy, p_saved, resizeVars, keyVars, wmVars, handlerVars, metaVars>>

\* resized_img = resize_image_content(img, width, height); img.resize
\* raises ValueError on a width or height below 1.
ResizeImage ==
    /\ p_pc = "resize"
    /\ LET sz == resize_image_content(p_size, RESIZE_WIDTH, RESIZE_HEIGHT)
       IN  IF sz[1] < 1 \/ sz[2] < 1
           THEN p_pc' = "raised" /\ UNCHANGED p_size
           ELSE p_pc' = "watermark" /\ p_size' = sz
    /\ UNCHANGED <<p_content, p_img, p_xy, p_saved, resizeVars, keyVars, wmVars, handlerVars, metaVars>>

\* watermarked_img = add_watermark(resized_img, ...): the text box is what
\* the default font measures.
Watermark ==
    /\ p_pc = "watermark"
    /\ \E text \in {<<100, 30>>, <<84, 11>>} :
           p_xy' = add_watermark_xy(p_size, text, WATERMARK_POSITION)
    /\ p_pc' = "save"
    /\ UNCHANGED <<p_content, p_img, p_size, p_saved, resizeVars, keyVars, wmVars, handlerVars, metaVars>>

\* lines 126-146
Save ==
    /\ p_pc = "save"
    /\ p_saved' = save_args(output_format(p_content.format), QUALITY)
    /\ p_pc' = "returned"
    /\ UNCHANGED <<p_content, p_img, p_size, p_xy, resizeVars, keyVars, wmVars, handlerVars, metaVars>>

NextProcess == Open \/ Normalize \/ ResizeImage \/ Watermark \/ Save

SpecProcess == InitProcess /\ [][NextProcess]_vars

\* C8: the output is encoded in the original's format when that is one of
\* JPEG/JPG, PNG, GIF, BMP, WEBP and in JPEG otherwise, and the encoder is
\* given the quality parameter exactly when the output format is JPEG.
C8_FormatAndQuality ==
    p_pc = "returned" =>
        LET original == p_content.format
        IN  /\ original \in {"PNG", "GIF", "BMP", "WEBP"} =>
                   p_saved.format = original
            /\ original \in {"JPEG", "JPG"} => p_saved.format = "JPEG"
            /\ original \notin {"JPEG", "JPG", "PNG", "GIF", "BMP", "WEBP"} =>
                   p_saved.format = "JPEG"
            /\ (p_saved.quality # <<>>) <=> (p_saved.format = "JPEG")
            /\ p_saved.quality # <<>> => p_saved.quality = <<85>>

\* C8 witness: an original in a format outside the table, encoded as JPEG
\* with the quality parameter.
C8_Witness ==
    /\ p_pc = "returned"
    /\ p_content.format = "TIFF"
    /\ p_saved.format = "JPEG"
    /\ p_saved.quality = <<85>>

\* The colour and alpha a source pixel carries: <<r, g, b, a>>.
SourceRGBA(image) ==
    CASE image.mode = "RGBA" -> image.px
      [] image.mode = "LA"   -> <<image.px[1], image.px[1], image.px[1],
                                  image.px[2]>>
      [] image.mode = "P"    -> image.palette[image.px[1]]
                                    \o <<image.transparency[image.px[1]]>>
      [] OTHER               -> image.px \o <<255>>

\* C9: a raster of mode RGBA, LA or P comes out of the colour-mode block as
\* opaque RGB, each pixel the source colour blended over white by the source
\* alpha (white where the source is fully transparent, the source colour
\* where it is opaque, between the two otherwise); an RGB raster passes
\* through unchanged.
C9_FlattenedOverWhite ==
    p_img # <<>> =>
        LET src == SourceRGBA(p_content)
        IN  /\ p_content.mode \in {"RGBA", "LA", "P"} =>
                   /\ p_img.mode = "RGB"
                   /\ src[4] = 0 => p_img.px = White
                   /\ src[4] = 255 => p_img.px = SubSeq(src, 1, 3)
                   /\ \A i \in 1..3 : src[i] <= p_img.px[i] /\ p_img.px[i] <= 255
            /\ p_content.mode = "RGB" =>
                   p_img = [mode |-> "RGB", px |-> p_content.px]

\* C9 restricted to the modes whose alpha the block does use: RGBA and P
\* rasters are flattened over white by their alpha, RGB rasters pass through.
C9_FlattenedExceptLA ==
    p_content.mode # "LA" => C9_FlattenedOverWhite

(***************************************************************************)
(* lambda_handler.                                                         *)
(***************************************************************************)
Uppers == <<"A", "B", "C", "D", "E", "F", "G", "H", "I", "J", "K", "L", "M", "N", "O", "P", "Q", "R", "S", "T", "U", "V", "W", "X", "Y", "Z">>

Lowers == <<"a", "b", "c", "d", "e", "f", "g", "h", "i", "j", "k", "l", "m", "n", "o", "p", "q", "r", "s", "t", "u", "v", "w", "x", "y", "z">>

\* str.lower(), on ASCII
ToLower(s) ==
    [i \in 1..Len(s) |->
        IF \E k \in 1..Len(Uppers) : Uppers[k] = s[i]
        THEN Lowers[CHOOSE k \in 1..Len(Uppers) : Uppers[k] = s[i]]
        ELSE s[i]]

\* str.endswith(suffix)
EndsWith(s, suffix) ==
    /\ Len(s) >= Len(suffix)
    /\ SubSeq(s, Len(s) - Len(suffix) + 1, Len(s)) = suffix

HexDigits == {"0", "1", "2", "3", "4", "5", "6", "7", "8", "9",
              "a", "b", "c", "d", "e", "f", "A", "B", "C", "D", "E", "F"}

\* The character a %XX escape stands for, for the escapes of the model's
\* keys; "?" for the others.
Unescape(hi, lo) ==
    CASE hi = "2" /\ lo \in {"E", "e"} -> "."
      [] hi = "2" /\ lo \in {"F", "f"} -> "/"
      [] hi = "2" /\ lo = "0"          -> " "
      [] hi = "2" /\ lo \in {"B", "b"} -> "+"
      [] OTHER                         -> "?"

\* urllib.parse.unquote_plus: '+' is a space, %XX the character escaped.
RECURSIVE unquote_plus(_)
unquote_plus(s) ==
    IF s = <<>> THEN <<>>
    ELSE IF s[1] = "+" THEN <<" ">> \o unquote_plus(Tail(s))
    ELSE IF s[1] = "%" /\ Len(s) >= 3 /\ s[2] \in HexDigits /\ s[3] \in HexDigits
    THEN <<Unescape(s[2], s[3])>> \o unquote_plus(SubSeq(s, 4, Len(s)))
    ELSE <<s[1]>> \o unquote_plus(Tail(s))

image_extensions ==
    <<<<".", "j", "p", "g">>,
      <<".", "j", "p", "e", "g">>,
      <<".", "p", "n", "g">>,
      <<".", "g", "i", "f">>,
      <<".", "b", "m", "p">>,
      <<".", "w", "e", "b", "p">>>>

is_image_file(file_key) ==
    \E k \in 1..Len(image_extensions) :
        EndsWith(ToLower(file_key), image_extensions[k])

\* get_content_type
get_content_type(file_key) ==
    LET ext == splitext(ToLower(file_key))[2]
    IN  CASE ext \in {<<".", "j", "p", "g">>, <<".", "j", "p", "e", "g">>} -> "image/jpeg"
          [] ext = <<".", "p", "n", "g">>  -> "image/png"
          [] ext = <<".", "g", "i", "f">>  -> "image/gif"
          [] ext = <<".", "b", "m", "p">>  -> "image/bmp"
          [] ext = <<".", "w", "e", "b", "p">> -> "image/webp"
          [] OTHER -> "application/octet-stream"

\* process_image as a whole: it raises where Image.open or img.resize
\* does, and returns the bytes of the save otherwise.
process_image(image_content, width, height, quality) ==
    LET sz == resize_image_content(image_content.size, width, height)
    IN  IF image_content = Corrupt
        THEN [raised |-> TRUE, format |-> "", size |-> <<>>]
        ELSE IF sz[1] < 1 \/ sz[2] < 1
        THEN [raised |-> TRUE, format |-> "", size |-> <<>>]
        ELSE [raised |-> FALSE,
              format |-> save_args(output_format(image_content.format),
                                   quality).format,
              size   |-> sz]

DESTINATION_BUCKET == "resized-image-bucket-9965"

SourceBucket == "uploads"

\* The object keys of the records, as the event carries them (URL-encoded).
EventKeys ==
    {<<"a", ".", "j", "p", "g">>,
     <<"A", ".", "J", "P", "G">>,
     <<"a", ".", "J", "p", "e", "g">>,
     <<"d", "/", "a", ".", "p", "n", "g">>,
     <<"a", ".", "g", "i", "f">>,
     <<"a", ".", "b", "m", "p">>,
     <<"a", ".", "W", "e", "b", "P">>,
     <<"a", ".", "T", "I", "F", "F">>,
     <<"a">>,
     <<"a", "j", "p", "g">>,
     <<"a", ".", "j", "p", "g", ".", "t", "x", "t">>,
     <<"a", "%", "2", "E", "J", "P", "G">>,
     <<"a", "+", "b", ".", "p", "n", "g">>,
     <<"a", ".", "j", "p", "g", "+">>,
     <<"d", "/", ".", "p", "n", "g">>}

\* A record of the event.  bucket and key are <<value>>, or <<>> when the
\* field is missing from the record.
EventRecords ==
    {[bucket |-> <<SourceBucket>>, key |-> <<k>>] : k \in EventKeys}
        \cup {[bucket |-> <<>>, key |-> <<<<"a", ".", "j", "p", "g">>>>],
              [bucket |-> <<SourceBucket>>, key |-> <<>>]}

MaxBatch == 2

RECURSIVE Batches(_)
Batches(n) ==
    IF n = 0 THEN {<<>>}
    ELSE LET shorter == Batches(n - 1)
         IN  shorter \cup {Append(b, r) : b \in shorter, r \in EventRecords}

\* What the source bucket may hold under a key: any bytes at all.
StoredContents ==
    {Corrupt} \cup
    {c \in Images :
        \/ c.format = "JPEG" /\ c.mode = "RGB" /\ c.px = <<0, 0, 0>>
               /\ c.size \in {<<2000, 1000>>, <<1000, 1>>}
        \/ c.format = "PNG" /\ c.mode = "RGBA" /\ c.px = <<0, 0, 0, 0>>
               /\ c.size = <<4, 3>>}

InitHandler ==
    /\ \/ event \in {[has_records |-> TRUE, Records |-> b] : b \in Batches(MaxBatch)}
       \/ event = [has_records |-> FALSE, Records |-> <<>>]
    /\ h_pc = "loop"
    /\ h_i = 1
    /\ log = <<>>
    /\ gets = <<>>
    /\ puts = <<>>
    /\ response = 0
    /\ ResizeIdle
    /\ KeyIdle
    /\ WmIdle
    /\ ProcIdle
    /\ MetaIdle

InLoop == h_pc = "loop" /\ event.has_records /\ h_i <= Len(event.Records)

record == event.Records[h_i]

WellFormed(r) == r.bucket # <<>> /\ r.key # <<>>

ThisKey == unquote_plus(record.key[1])

Logged(outcome, key) == Append(log, [rec |-> h_i, source_key |-> key, outcome |-> outcome])

GetCall == [rec |-> h_i, Bucket |-> record.bucket[1], Key |-> ThisKey]

PutCall(body) ==
    [rec         |-> h_i,
     Bucket      |-> DESTINATION_BUCKET,
     Key         |-> generate_destination_key(ThisKey),
     Body        |-> body,
     ContentType |-> get_content_type(ThisKey)]

Processed(content) == process_image(content, RESIZE_WIDTH, RESIZE_HEIGHT, QUALITY)

otherThanHandler == <<resizeVars, keyVars, wmVars, procVars, metaVars>>

\* event['Records'] raises KeyError: caught at line 92.
InvalidEvent ==
    /\ h_pc = "loop"
    /\ ~event.has_records
    /\ h_pc' = "returned"
    /\ response' = 500
    /\ UNCHANGED <<event, h_i, log, gets, puts, otherThanHandler>>

\* record['s3']['bucket']['name'] or record['s3']['object']['key'] raises
\* KeyError, outside the inner try blocks: caught at line 92.
MalformedRecord ==
    /\ InLoop
    /\ ~WellFormed(record)
    /\ log' = Logged("error in lambda_handler", <<>>)
    /\ h_pc' = "returned"
    /\ response' = 500
    /\ UNCHANGED <<event, h_i, gets, puts, otherThanHandler>>

\* lines 42-44
SkipNonImage ==
    /\ InLoop
    /\ WellFormed(record)
    /\ ~is_image_file(ThisKey)
    /\ log' = Logged("skipping non-image file", ThisKey)
    /\ h_i' = h_i + 1
    /\ UNCHANGED <<event, h_pc, gets, puts, response, otherThanHandler>>

\* lines 47-52, s3.get_object raising
DownloadFails ==
    /\ InLoop
    /\ WellFormed(record)
    /\ is_image_file(ThisKey)
    /\ gets' = Append(gets, GetCall)
    /\ log' = Logged("error downloading", ThisKey)
    /\ h_i' = h_i + 1
    /\ UNCHANGED <<event, h_pc, puts, response, otherThanHandler>>

\* lines 47-68, process_image raising
ProcessFails ==
    /\ InLoop
    /\ WellFormed(record)
    /\ is_image_file(ThisKey)
    /\ \E content \in StoredContents : Processed(content).raised
    /\ gets' = Append(gets, GetCall)
    /\ log' = Logged("error processing", ThisKey)
    /\ h_i' = h_i + 1
    /\ UNCHANGED <<event, h_pc, puts, response, otherThanHandler>>

\* lines 47-85, s3.put_object raising
UploadFails ==
    /\ InLoop
    /\ WellFormed(record)
    /\ is_image_file(ThisKey)
    /\ \E content \in StoredContents :
           /\ ~Processed(content).raised
           /\ puts' = Append(puts, PutCall(Processed(content)))
    /\ gets' = Append(gets, GetCall)
    /\ log' = Logged("error uploading", ThisKey)
    /\ h_i' = h_i + 1
    /\ UNCHANGED <<event, h_pc, response, otherThanHandler>>

\* lines 47-81
Upload ==
    /\ InLoop
    /\ WellFormed(record)
    /\ is_image_file(ThisKey)
    /\ \E content \in StoredContents :
           /\ ~Processed(content).raised
           /\ puts' = Append(puts, PutCall(Processed(content)))
    /\ gets' = Append(gets, GetCall)
    /\ log' = Logged("successfully uploaded", ThisKey)
    /\ h_i' = h_i + 1
    /\ UNCHANGED <<event, h_pc, response, otherThanHandler>>

\* lines 87-90
Return200 ==
    /\ h_pc = "loop"
    /\ event.has_records
    /\ h_i > Len(event.Records)
    /\ h_pc' = "returned"
    /\ response' = 200
    /\ UNCHANGED <<event, h_i, log, gets, puts, otherThanHandler>>

NextHandler ==
    \/ InvalidEvent
    \/ MalformedRecord
    \/ SkipNonImage
    \/ DownloadFails
    \/ ProcessFails
    \/ UploadFails
    \/ Upload
    \/ Return200

SpecHandler == InitHandler /\ [][NextHandler]_vars

Returned == h_pc = "returned"

\* The records the loop took up, in the order it took them up.
TakenUp == [k \in 1..Len(log) |-> log[k].rec]

AllTakenUpInOrder ==
    /\ Len(log) = Len(event.Records)
    /\ \A k \in 1..Len(log) : log[k].rec = k

ReadIssued(i) == \E k \in 1..Len(gets) : gets[k].rec = i

WriteIssued(i) == \E k \in 1..Len(puts) : puts[k].rec = i

\* C3: whatever storage reads, transforms and storage writes fail, a failing
\* record is abandoned (no write after a failed read or transform), every
\* record of the batch is processed in the order delivered, and the
\* invocation returns 200.
C3_FailuresIsolated ==
    (Returned /\ event.has_records) =>
        /\ response = 200
        /\ AllTakenUpInOrder
        /\ \A k \in 1..Len(log) :
               log[k].outcome \in {"error downloading", "error processing"} =>
                   ~WriteIssued(log[k].rec)

\* C3 on the batches whose records all carry their bucket and key: there
\* the statement holds.
C3_FailuresIsolatedWellFormed ==
    (\A i \in 1..Len(event.Records) : WellFormed(event.Records[i])) =>
        C3_FailuresIsolated

\* Two records, the first failing in its transform: the second is uploaded
\* and the invocation returns 200.
C3_IsolationReached ==
    /\ Returned
    /\ response = 200
    /\ Len(log) = 2
    /\ log[1].outcome = "error processing"
    /\ log[2].outcome = "successfully uploaded"
    /\ ~WriteIssued(1)
    /\ WriteIssued(2)

\* C4: no error of one record keeps the records after it from being
\* examined, a record without its bucket or key fields included, and 500 is
\* returned only for an event that is invalid as a whole.
C4_NoRecordAborts ==
    Returned =>
        /\ event.has_records => AllTakenUpInOrder
        /\ response = 500 => ~event.has_records

\* The extensions of the allow-list.
AllowList ==
    {<<".", "j", "p", "g">>,
     <<".", "j", "p", "e", "g">>,
     <<".", "p", "n", "g">>,
     <<".", "g", "i", "f">>,
     <<".", "b", "m", "p">>,
     <<".", "w", "e", "b", "p">>}

\* The key ends, letter case aside, with an extension of the allow-list.
EndsWithAllowed(key) ==
    \E ext \in AllowList :
        /\ Len(key) >= Len(ext)
        /\ \A j \in 1..Len(ext) :
               ToLower(<<key[Len(key) - Len(ext) + j]>>) = <<ext[j]>>

\* C5: for every record, a storage read is attempted if and only if its
\* URL-decoded key ends, case-insensitively, with .jpg, .jpeg, .png, .gif,
\* .bmp or .webp; for any other key no read and no write is issued.
C5_ReadIffImageKey ==
    (Returned /\ event.has_records) =>
        \A i \in 1..Len(event.Records) :
            event.Records[i].key # <<>> =>
                LET key == unquote_plus(event.Records[i].key[1])
                IN  /\ ReadIssued(i) <=> EndsWithAllowed(key)
                    /\ ~EndsWithAllowed(key) => ~ReadIssued(i) /\ ~WriteIssued(i)

\* C5 on the records the loop takes up: a read is issued for exactly those
\* whose decoded key ends with an allowed extension, under the decoded key,
\* and a write only after a read.
C5_ReadIffImageKeyTakenUp ==
    /\ \A k \in 1..Len(log) :
           log[k].outcome # "error in lambda_handler" =>
               LET i   == log[k].rec
                   key == unquote_plus(event.Records[i].key[1])
               IN  /\ ReadIssued(i) <=> EndsWithAllowed(key)
                   /\ WriteIssued(i) => ReadIssued(i)
    /\ \A k \in 1..Len(gets) :
           gets[k].Key = unquote_plus(event.Records[gets[k].rec].key[1])

\* An escaped, upper-case key is read under its decoded name, and a .TIFF
\* key is passed over.
C5_FilterReached ==
    /\ Returned
    /\ Len(event.Records) = 2
    /\ event.Records[1].key = <<<<"a", "%", "2", "E", "J", "P", "G">>>>
    /\ event.Records[2].key = <<<<"a", ".", "T", "I", "F", "F">>>>
    /\ Len(gets) = 1
    /\ gets[1].Key = <<"a", ".", "J", "P", "G">>
    /\ log[2].outcome = "skipping non-image file"

\* The image format a Content-Type of get_content_type's table denotes, in
\* the names of process_image's format_map; "" for the generic type.
FormatOfContentType(content_type) ==
    CASE content_type = "image/jpeg" -> "JPEG"
      [] content_type = "image/png"  -> "PNG"
      [] content_type = "image/gif"  -> "GIF"
      [] content_type = "image/bmp"  -> "BMP"
      [] content_type = "image/webp" -> "WEBP"
      [] OTHER -> ""

\* C12: every object written to the destination bucket carries a
\* ContentType that denotes the format its bytes were encoded in, and never
\* the generic application/octet-stream.
C12_ContentTypeMatchesEncoding ==
    \A k \in 1..Len(puts) :
        /\ puts[k].ContentType # "application/octet-stream"
        /\ FormatOfContentType(puts[k].ContentType) = puts[k].Body.format

(***************************************************************************)
(* The metadata service (Lambda2-Store-imageMetadata.py).                  *)
(*                                                                         *)
(* A JSON value is [json, text]: its kind and its literal text as a        *)
(* sequence of characters.  A field of a dict, or a key of the event, is   *)
(* <<value>> when present and <<>> when absent.  Of the optional fields    *)
(* the model carries Status; the others are copied the same way.           *)
(***************************************************************************)
Num(text) == [json |-> "number", text |-> text]

Str(text) == [json |-> "string", text |-> text]

Null == [json |-> "null", text |-> <<>>]

Digits == {"0", "1", "2", "3", "4", "5", "6", "7", "8", "9"}

DigitValue(c) == CHOOSE d \in 0..9 : <<"0", "1", "2", "3", "4", "5", "6", "7", "8", "9">>[d + 1] = c

RECURSIVE ParseDigits(_)
ParseDigits(s) ==
    IF Len(s) = 0 THEN 0
    ELSE 10 * ParseDigits(SubSeq(s, 1, Len(s) - 1)) + DigitValue(s[Len(s)])

RECURSIVE Strip(_)
Strip(s) ==
    IF Len(s) > 0 /\ s[1] = " " THEN Strip(Tail(s))
    ELSE IF Len(s) > 0 /\ s[Len(s)] = " " THEN Strip(SubSeq(s, 1, Len(s) - 1))
    ELSE s

\* int(v) of Python for a decoded JSON value: a number is taken as it is, a
\* string is stripped and read as decimal digits (ValueError otherwise), and
\* None raises TypeError.
PyInt(v) ==
    LET t == IF v.json = "string" THEN Strip(v.text) ELSE v.text
    IN  IF v.json = "null" THEN [raised |-> "TypeError", value |-> 0]
        ELSE IF Len(t) > 0 /\ \A i \in 1..Len(t) : t[i] \in Digits
        THEN [raised |-> "", value |-> ParseDigits(t)]
        ELSE [raised |-> "ValueError", value |-> 0]

\* The response of lambda_handler: its statusCode, the message of its body
\* (without the interpolated part) and the items under 'data'.
Response(status_code, message, data) ==
    [statusCode |-> status_code, message |-> message, data |-> data]

create_error_response(status_code, message) == Response(status_code, message, {})

\* table.get_item(Key={'ImageID': image_id}): the items under that key, at
\* most one; 'Item' is in the response when there is one.
get_item(tbl, image_id) == {it \in tbl : it.ImageID = image_id}

\* table.put_item(Item=item) without a ConditionExpression: the item takes
\* the place of whatever the table holds under its key.
put_item(tbl, item) == {it \in tbl : it.ImageID # item.ImageID} \cup {item}

\* table.update_item(Key, "SET UpdatedAt = ..., <field> = ...") with
\* ReturnValues='ALL_NEW': the item after the update.
update_item(item, body, now) ==
    [item EXCEPT !.UpdatedAt = now,
                 !.FileName  = IF body.FileName # <<>> THEN body.FileName[1].text ELSE @,
                 !.Status    = IF body.Status # <<>> THEN body.Status ELSE @]

\* table.delete_item(Key={'ImageID': image_id})
delete_item(tbl, image_id) == {it \in tbl : it.ImageID # image_id}

\* The error codes a DynamoDB call of this service can raise as ClientError;
\* "" is a call that succeeds.  ConditionalCheckFailedException is raised
\* only for a call that carries a ConditionExpression, and none does.
ClientErrors == {"", "ProvisionedThroughputExceededException"}

MaxRequests == 3

IdValues == {Num(<<"1">>), Num(<<"2">>), Str(<<"0", "1">>), Str(<<"x">>), Null}

FileNames == {Str(<<"a", ".", "j", "p", "g">>), Str(<<"b", ".", "j", "p", "g">>)}

Maybe(S) == {<<>>} \cup {<<v>> : v \in S}

\* The request bodies: absent from the event, null, a string that is no
\* JSON, or a dict.
NoDict(kind) == [kind |-> kind, ImageID |-> <<>>, FileName |-> <<>>, Status |-> <<>>]

Dicts ==
    [kind : {"dict"}, ImageID : Maybe(IdValues), FileName : Maybe(FileNames),
     Status : Maybe({"done"})]

PathIds == {<<"1">>, <<"2">>, <<"x">>, <<>>}

ApiEvents ==
    [httpMethod : Maybe({"POST", "PUT"}), body : Maybe(Dicts),
     pathImageID : {<<>>}, queryImageID : {<<>>}]
    \cup
    [httpMethod : Maybe({"POST", "PUT", "GET", "DELETE", "OPTIONS", "PATCH"}),
     body : Maybe({NoDict("null"), NoDict("invalid")}),
     pathImageID : {<<>>}, queryImageID : {<<>>}]
    \cup
    [httpMethod : {<<"GET">>, <<"DELETE">>}, body : {<<NoDict("null")>>},
     pathImageID : Maybe(PathIds), queryImageID : Maybe({<<"2">>})]

InitMetadata ==
    /\ table = {}
    /\ utcnow = 0
    /\ api_event = <<>>
    /\ api_response = <<>>
    /\ ResizeIdle
    /\ KeyIdle
    /\ WmIdle
    /\ ProcIdle
    /\ HandlerIdle

otherThanMeta == <<resizeVars, keyVars, wmVars, procVars, handlerVars>>

\* http_method = event.get('httpMethod', 'POST')
http_method(ev) == IF ev.httpMethod = <<>> THEN "POST" ELSE ev.httpMethod[1]

\* A request arrives: the clock has moved on since the last one.
Arrives(ev) ==
    /\ utcnow < MaxRequests
    /\ utcnow' = utcnow + 1
    /\ api_event' = ev

\* The request reaches the dispatch on http_method (lines 50-62).
Dispatched(ev, method) ==
    /\ ev.httpMethod # <<"OPTIONS">>
    /\ ev.body # <<>>
    /\ ev.body[1].kind # "invalid"
    /\ http_method(ev) = method

\* lambda_handler, lines 31-36
Preflight ==
    \E ev \in ApiEvents :
        /\ Arrives(ev)
        /\ ev.httpMethod = <<"OPTIONS">>
        /\ api_response' = Response(200, "CORS preflight response", {})
        /\ UNCHANGED <<table, otherThanMeta>>

\* lambda_handler, lines 39-48
BodyRejected ==
    \E ev \in ApiEvents :
        /\ Arrives(ev)
        /\ ev.httpMethod # <<"OPTIONS">>
        /\ \/ ev.body = <<>>
              /\ api_response' = create_error_response(400, "Request body is missing")
           \/ ev.body # <<>> /\ ev.body[1].kind = "invalid"
              /\ api_response' = create_error_response(400, "Invalid JSON in request body")
        /\ UNCHANGED <<table, otherThanMeta>>

\* lambda_handler, lines 61-62
MethodNotAllowed ==
    \E ev \in ApiEvents :
        /\ Arrives(ev)
        /\ ev.httpMethod # <<"OPTIONS">>
        /\ ev.body # <<>>
        /\ ev.body[1].kind # "invalid"
        /\ http_method(ev) \notin {"POST", "PUT", "GET", "DELETE"}
        /\ api_response' = create_error_response(405, "Method not allowed")
        /\ UNCHANGED <<table, otherThanMeta>>

handle_create_metadata ==
    \E ev \in ApiEvents, error_code \in ClientErrors :
        LET body      == ev.body[1]
            timestamp == utcnow'
            image_id  == PyInt(body.ImageID[1])
            item      == [ImageID   |-> image_id.value,
                          FileName  |-> body.FileName[1].text,
                          Status    |-> body.Status,
                          CreatedAt |-> timestamp,
                          UpdatedAt |-> timestamp]
        IN  /\ Arrives(ev)
            /\ Dispatched(ev, "POST")
            /\ IF body.kind = "null"
               THEN /\ api_response' = create_error_response(500, "Error creating metadata")
                    /\ UNCHANGED table
               ELSE IF body.ImageID = <<>> \/ body.FileName = <<>>
               THEN /\ api_response' = create_error_response(400, "Missing required field")
                    /\ UNCHANGED table
               ELSE IF image_id.raised = "ValueError"
               THEN /\ api_response' = create_error_response(400, "Invalid ImageID format")
                    /\ UNCHANGED table
               ELSE IF image_id.raised = "TypeError"
               THEN /\ api_response' = create_error_response(500, "Error creating metadata")
                    /\ UNCHANGED table
               ELSE IF error_code = "ConditionalCheckFailedException"
               THEN /\ api_response' = create_error_response(409, "Image metadata already exists")
                    /\ UNCHANGED table
               ELSE IF error_code # ""
               THEN /\ api_response' = create_error_response(500, "DynamoDB error")
                    /\ UNCHANGED table
               ELSE /\ table' = put_item(table, item)
                    /\ api_response' = Response(201, "Image metadata created successfully", {item})
            /\ UNCHANGED otherThanMeta

handle_update_metadata ==
    \E ev \in ApiEvents, get_error \in ClientErrors, error_code \in ClientErrors :
        LET body     == ev.body[1]
            image_id == PyInt(body.ImageID[1])
            found    == get_item(table, image_id.value)
            updated  == {update_item(it, body, utcnow') : it \in found}
        IN  /\ Arrives(ev)
            /\ Dispatched(ev, "PUT")
            /\ IF body.kind = "null"
               THEN /\ api_response' = create_error_response(500, "Error updating metadata")
                    /\ UNCHANGED table
               ELSE IF body.ImageID = <<>>
               THEN /\ api_response' = create_error_response(400, "ImageID is required for updates")
                    /\ UNCHANGED table
               ELSE IF image_id.raised = "ValueError"
               THEN /\ api_response' = create_error_response(400, "Invalid ImageID format")
                    /\ UNCHANGED table
               ELSE IF image_id.raised = "TypeError"
               THEN /\ api_response' = create_error_response(500, "Error updating metadata")
                    /\ UNCHANGED table
               ELSE IF get_error # ""
               THEN /\ api_response' = create_error_response(500, "Error checking item existence")
                    /\ UNCHANGED table
               ELSE IF found = {}
               THEN /\ api_response' = create_error_response(404, "Image not found")
                    /\ UNCHANGED table
               ELSE IF error_code # ""
               THEN /\ api_response' = create_error_response(500, "DynamoDB error")
                    /\ UNCHANGED table
               ELSE /\ table' = delete_item(table, image_id.value) \cup updated
                    /\ api_response' = Response(200, "Image metadata updated successfully", updated)
            /\ UNCHANGED otherThanMeta

\* image_id of handle_get_metadata and handle_delete_metadata: the path
\* parameter before the query parameter, <<>> for None.
requested_id(ev) ==
    IF ev.pathImageID # <<>> THEN ev.pathImageID
    ELSE IF ev.queryImageID # <<>> THEN ev.queryImageID
    ELSE <<>>

handle_get_metadata ==
    \E ev \in ApiEvents, error_code \in ClientErrors :
        LET image_id == requested_id(ev)
            parsed   == PyInt(Str(image_id[1]))
            found    == get_item(table, parsed.value)
        IN  /\ Arrives(ev)
            /\ Dispatched(ev, "GET")
            /\ IF image_id # <<>> /\ image_id[1] # <<>>
               THEN IF parsed.raised = "ValueError"
                    THEN api_response' = create_error_response(400, "Invalid ImageID format")
                    ELSE IF error_code # ""
                    THEN api_response' = create_error_response(500, "DynamoDB error")
                    ELSE IF found = {}
                    THEN api_response' = create_error_response(404, "Image not found")
                    ELSE api_response' = Response(200, "Image metadata retrieved successfully", found)
               ELSE IF error_code # ""
                    THEN api_response' = create_error_response(500, "DynamoDB error")
                    ELSE api_response' = Response(200, "Image metadata retrieved successfully", table)
            /\ UNCHANGED <<table, otherThanMeta>>

handle_delete_metadata ==
    \E ev \in ApiEvents, get_error \in ClientErrors, error_code \in ClientErrors :
        LET image_id == requested_id(ev)
            parsed   == PyInt(Str(image_id[1]))
            found    == get_item(table, parsed.value)
        IN  /\ Arrives(ev)
            /\ Dispatched(ev, "DELETE")
            /\ IF image_id = <<>> \/ image_id[1] = <<>>
               THEN /\ api_response' = create_error_response(400, "ImageID is required for deletion")
                    /\ UNCHANGED table
               ELSE IF parsed.raised = "ValueError"
               THEN /\ api_response' = create_error_response(400, "Invalid ImageID format")
                    /\ UNCHANGED table
               ELSE IF get_error # ""
               THEN /\ api_response' = create_error_response(500, "Error checking item existence")
                    /\ UNCHANGED table
               ELSE IF found = {}
               THEN /\ api_response' = create_error_response(404, "Image not found")
                    /\ UNCHANGED table
               ELSE IF error_code # ""
               THEN /\ api_response' = create_error_response(500, "DynamoDB error")
                    /\ UNCHANGED table
               ELSE /\ table' = delete_item(table, parsed.value)
                    /\ api_response' = Response(200, "Image metadata deleted successfully", {})
            /\ UNCHANGED otherThanMeta

NextMetadata ==
    \/ Preflight
    \/ BodyRejected
    \/ MethodNotAllowed
    \/ handle_create_metadata
    \/ handle_update_metadata
    \/ handle_get_metadata
    \/ handle_delete_metadata

SpecMetadata == InitMetadata /\ [][NextMetadata]_vars

\* A POST that passes handle_create_metadata's validation: a dict with
\* ImageID and FileName whose ImageID int() accepts.
WellFormedPost(ev) ==
    /\ Dispatched(ev, "POST")
    /\ ev.body[1].kind = "dict"
    /\ ev.body[1].ImageID # <<>>
    /\ ev.body[1].FileName # <<>>
    /\ PyInt(ev.body[1].ImageID[1]).raised = ""

PostedId(ev) == PyInt(ev.body[1].ImageID[1]).value

\* The step handles a well-formed POST whose ImageID the table holds.
PostOfExistingId ==
    /\ utcnow' = utcnow + 1
    /\ WellFormedPost(api_event')
    /\ get_item(table, PostedId(api_event')) # {}

\* C13: a POST whose ImageID already exists in the table returns 409 'Image
\* metadata already exists' and leaves the stored record, its CreatedAt
\* included, unchanged.
C13_PostOnlyCreates ==
    [][PostOfExistingId =>
          /\ api_response'.statusCode = 409
          /\ api_response'.message = "Image metadata already exists"
          /\ get_item(table', PostedId(api_event')) = get_item(table, PostedId(api_event'))]_vars

\* What the code does instead: unless DynamoDB fails the call, such a POST
\* returns 201 and the posted item, stamped anew, replaces the stored one.
C13_PostReplaces ==
    [][(PostOfExistingId /\ api_response'.statusCode # 500) =>
          /\ api_response'.statusCode = 201
          /\ get_item(table', PostedId(api_event')) = api_response'.data
          /\ \A new \in api_response'.data :
                 /\ new.CreatedAt = utcnow'
                 /\ \A old \in get_item(table, PostedId(api_event')) :
                        new.CreatedAt > old.CreatedAt]_vars

\* No request is ever answered 409.
C13_NeverConflict == api_response # <<>> => api_response.statusCode # 409

====
